---- MODULE Spec2Model ----
(***************************************************************************)
(* nanomongo/document.py: schema composition at class-declaration time     *)
(* (Nanomongo.from_dicts, DocumentMeta.__init__) and the document instance *)
(* (BaseDocument.__init__, validate_all, save, find_one).                  *)
(*                                                                         *)
(* Python dicts are functions whose domain is a finite set of strings.     *)
(* A dict that the code shares by reference lives in `heap` and is named   *)
(* by its index there.  A Field is a record with the attributes the code   *)
(* reads: validator, required and, only when a default was given,          *)
(* default_value (the code tests hasattr(field, 'default_value')).         *)
(***************************************************************************)
EXTENDS Integers, Sequences, FiniteSets, TLC

\* ---------------------------------------------------------------- bounds
\* Classes declared after BaseDocument.
MaxClasses == 2
\* ObjectIds the store client may generate.
MaxIds == 1

\* ---------------------------------------------------------------- values
\* Plain values a caller may supply for a field; 0 stands for a value of the
\* wrong type, which every validator rejects.
Values == 0 .. 2
\* ObjectIds are the integers above every plain value.
ObjectId(n) == 9 + n
ObjectIds == {ObjectId(n) : n \in 1 .. MaxIds}

\* Field(...).validator(value, field_name=...): an ObjectId field accepts
\* ObjectIds only, a str or int field accepts the well-typed plain values.
Accepts(field, value) ==
    IF field.validator = "ObjectId" THEN value \in ObjectIds
    ELSE value \in Values \ {0}

\* isinstance(field_value, Field)
IsField(v) == "validator" \in DOMAIN v
\* hasattr(field, 'default_value')
HasDefault(field) == "default_value" \in DOMAIN field

\* Field(ObjectId, required=False), the injected identifier field.
IdField == [validator |-> "ObjectId", required |-> FALSE]
\* A declared identifier field: Field(ObjectId).
ReqIdField == [validator |-> "ObjectId", required |-> TRUE]
\* Field(str): required, no default.
StrField == [validator |-> "str", required |-> TRUE]
\* Field(int, required=False).
IntField == [validator |-> "int", required |-> FALSE]
\* Field(int, required=False, default=1).
IntDefaultField == [validator |-> "int", required |-> FALSE, default_value |-> 1]
\* A class attribute that is no Field (a method, a constant).
OtherAttr == [attr |-> "other"]

EmptyDict == [k \in {} |-> OtherAttr]

\* No arguments of __init__ on record.
NoCall == [args |-> <<>>, kwargs |-> <<>>]

\* dict item assignment d[k] = v
SetItem(d, k, v) == [x \in DOMAIN d \cup {k} |-> IF x = k THEN v ELSE d[x]]
\* del d[k]
DelItem(d, k) == [x \in DOMAIN d \ {k} |-> d[x]]

VARIABLES
    heap,       \* the dicts shared by reference: class namespaces and field mappings
    classes,    \* the declared classes, BaseDocument first
    schema,     \* the field mapping of the instance's class (its nanomongo.fields)
    nanomongo,  \* the storage coordinates of the instance's class
    doc,        \* the instance: <<>> when none exists, else <<its dict>>
    store,      \* the collection: ObjectId -> stored document
    nextId,     \* how many ObjectIds the client has generated
    call,       \* the last operation called on the instance
    err,        \* how that call ended
    issued,     \* the operations that call issued to the store client
    found,      \* the result of the last find_one: <<>> for None
    snapshot,   \* history: the instance's dict at its last successful save
    rejected,   \* history: validate_all has reported a required field missing
    supplied    \* history: the arguments of the last call, when it was __init__

schemaVars == <<heap, classes>>
docVars == <<schema, nanomongo, doc, store, nextId, call, err, issued, found, snapshot, rejected, supplied>>
vars == <<heap, classes, schema, nanomongo, doc, store, nextId, call, err, issued, found, snapshot, rejected, supplied>>

\* ------------------------------------------------------- Nanomongo, schema
\* Nanomongo.from_dicts(*args), args given as heap references: a fresh dict
\* that holds the Field items of each argument in turn, later ones winning.
\* The result is the new heap and the reference of the fresh dict.
RECURSIVE MergeFields(_, _, _)
MergeFields(h, refs, fields) ==
    IF refs = <<>> THEN fields
    ELSE LET dct == h[Head(refs)]
             upd == [k \in DOMAIN fields \cup {x \in DOMAIN dct : IsField(dct[x])} |->
                        IF k \in DOMAIN dct /\ IsField(dct[k]) THEN dct[k] ELSE fields[k]]
         IN  MergeFields(h, Tail(refs), upd)

from_dicts_parent_wins(h, refs) ==
    LET RECURSIVE Rev(_)
        Rev(s) == IF s = <<>> THEN <<>> ELSE Append(Rev(Tail(s)), Head(s))
    IN  [heap |-> Append(h, MergeFields(h, Rev(refs), EmptyDict)), ref |-> Len(h) + 1]

from_dicts_in_place(h, refs) ==
    [heap |-> [h EXCEPT ![Head(refs)] = MergeFields(h, refs, EmptyDict)],
     ref |-> Head(refs)]

from_dicts(h, refs) ==
    [heap |-> Append(h, MergeFields(h, refs, EmptyDict)), ref |-> Len(h) + 1]

\* Nanomongo.has_field(key)
has_field(fields, key) == key \in DOMAIN fields

\* DocumentMeta.__init__, lines 97-98: the identifier field is added, in
\* place, to a field mapping that lacks it.
inject_id_required(h, ref) ==
    IF has_field(h[ref], "_id") THEN h
    ELSE [h EXCEPT ![ref] = SetItem(h[ref], "_id", ReqIdField)]

inject_id(h, ref) ==
    IF has_field(h[ref], "_id") THEN h
    ELSE [h EXCEPT ![ref] = SetItem(h[ref], "_id", IdField)]

\* name.lower()
Lower(name) == IF name = "Doc" THEN "doc" ELSE "basedocument"

\* DocumentMeta.__init__(cls, name, bases, dct, **kwargs) for a class whose
\* namespace dct is h[dctRef]; parent is the index of the class it inherits
\* `nanomongo` from, 0 when hasattr(cls, 'nanomongo') is false.  The class
\* record keeps: the references of its namespace and of its field mapping,
\* the attributes left on the class after delattr, the storage coordinates
\* (client and database "None" until set, the collection from kwargs or the
\* lower-cased class name), and (history) the field mapping as it was when
\* the declaration ended.
NewClass(h, cs, name, parent, dctRef, kwargs) ==
    LET made == IF parent # 0 THEN from_dicts(h, <<cs[parent].fields, dctRef>>)
                ELSE from_dicts(h, <<dctRef>>)
        h2 == inject_id(made.heap, made.ref)
        dct == h2[dctRef]
    IN  [heap |-> h2,
         class |-> [name |-> name,
                    parent |-> parent,
                    dct |-> dctRef,
                    fields |-> made.ref,
                    attrs |-> {k \in DOMAIN dct : ~IsField(dct[k])},
                    client |-> IF "client" \in DOMAIN kwargs
                               THEN kwargs["client"] ELSE "None",
                    database |-> IF "db" \in DOMAIN kwargs THEN kwargs["db"] ELSE "None",
                    collection |-> IF "collection" \in DOMAIN kwargs
                                   THEN kwargs["collection"] ELSE Lower(name),
                    declared |-> h2[made.ref]]]

\* The namespaces a class body may have: each name absent, a Field or
\* another attribute.
DeclValues(k) == IF k = "_id" THEN {ReqIdField} ELSE {StrField, IntDefaultField, OtherAttr}
Namespaces ==
    UNION {[S -> {StrField, IntDefaultField, OtherAttr, ReqIdField}] : S \in SUBSET {"_id", "foo"}}
ClassNamespaces == {d \in Namespaces : \A k \in DOMAIN d : d[k] \in DeclValues(k)}
ClassKwargs ==
    {EmptyDict, [k \in {"collection"} |-> "items"],
     [k \in {"client", "db"} |-> IF k = "client" THEN "MotorClient" ELSE "nanotestdb"]}

\* Nanomongo.get_collection(): the error raised, "ok" when the client, the
\* database and the collection are all set.
get_collection(nm) ==
    IF nm.client = "None" \/ nm.database = "None" \/ nm.collection = "None"
    THEN "ConfigurationError" ELSE "ok"

\* class BaseDocument(dict, metaclass=DocumentMeta): no Field in its body.
BaseDocument ==
    NewClass(<<[k \in {"save", "validate"} |-> OtherAttr]>>, <<>>, "BaseDocument", 0, 1, EmptyDict)

\* class Doc(<parent>, **kwargs): <body>
DeclareSubclass(parent, dct, kwargs) ==
    /\ Len(classes) < 1 + MaxClasses
    /\ LET h == Append(heap, dct)
           new == NewClass(h, classes, "Doc", parent, Len(h), kwargs)
       IN  /\ heap' = new.heap
           /\ classes' = Append(classes, new.class)
    /\ UNCHANGED docVars

\* class Doc(dict, metaclass=DocumentMeta, **kwargs): <body>
DeclareRoot(dct, kwargs) ==
    /\ Len(classes) < 1 + MaxClasses
    /\ LET h == Append(heap, dct)
           new == NewClass(h, classes, "Doc", 0, Len(h), kwargs)
       IN  /\ heap' = new.heap
           /\ classes' = Append(classes, new.class)
    /\ UNCHANGED docVars

SchemaInit ==
    /\ heap = BaseDocument.heap
    /\ classes = <<BaseDocument.class>>
    /\ schema = EmptyDict
    /\ nanomongo = [n \in {"client", "database", "collection"} |-> BaseDocument.class[n]]
    /\ doc = <<>>
    /\ store = EmptyDict
    /\ nextId = 0
    /\ call = "none"
    /\ err = "ok"
    /\ issued = <<>>
    /\ found = <<>>
    /\ snapshot = <<>>
    /\ rejected = FALSE
    /\ supplied = NoCall

SchemaNext ==
    \/ \E p \in 1 .. Len(classes), d \in ClassNamespaces, kw \in ClassKwargs :
           DeclareSubclass(p, d, kw)
    \/ \E d \in ClassNamespaces, kw \in ClassKwargs : DeclareRoot(d, kw)

SchemaSpec == SchemaInit /\ [][SchemaNext]_vars

\* ------------------------------------------------------ schema properties
\* The field mapping of class i, and the Fields its own body declared.
FieldsOf(i) == heap[classes[i].fields]
OwnFields(i) ==
    LET dct == heap[classes[i].dct]
    IN  [k \in {x \in DOMAIN dct : IsField(dct[x])} |-> dct[k]]

\* The identifier Field class i or its nearest ancestor declared; IdField,
\* the injected one (not required, no default), when none did.
RECURSIVE DeclaredId(_)
DeclaredId(i) ==
    IF i = 0 THEN IdField
    ELSE IF "_id" \in DOMAIN OwnFields(i) THEN OwnFields(i)["_id"]
    ELSE DeclaredId(classes[i].parent)

\* C7: every declared class, at any inheritance depth, has exactly one
\* field named _id in its schema: the one it or an ancestor declared, or
\* else the injected one, which is not required and has no default.
C7_IdentifierField ==
    \A i \in 1 .. Len(classes) :
        /\ Cardinality({k \in DOMAIN FieldsOf(i) : k = "_id"}) = 1
        /\ FieldsOf(i)["_id"] = DeclaredId(i)
        /\ DeclaredId(i) = IdField =>
               /\ ~FieldsOf(i)["_id"].required
               /\ ~HasDefault(FieldsOf(i)["_id"])

\* A class two levels below a root that is not BaseDocument and declared no
\* identifier: its _id is the one injected into that root.
C7_Witness ==
    \E i, j \in 2 .. Len(classes) :
        /\ classes[i].parent = 0
        /\ "_id" \notin DOMAIN OwnFields(i)
        /\ classes[j].parent = i
        /\ "_id" \notin DOMAIN OwnFields(j)
        /\ FieldsOf(j)["_id"] = IdField

\* C8: a subclass's field mapping is the parent's mapping overlaid with the
\* subclass's own Fields: a parent field it does not redeclare keeps the
\* parent's Field, a redeclared name maps to the subclass's Field alone.
C8_InheritanceMerge ==
    \A i \in 1 .. Len(classes) :
        classes[i].parent # 0 =>
            LET parent == FieldsOf(classes[i].parent)
                own == OwnFields(i)
            IN  /\ DOMAIN FieldsOf(i) = DOMAIN parent \cup DOMAIN own
                /\ \A k \in DOMAIN own : FieldsOf(i)[k] = own[k]
                /\ \A k \in DOMAIN parent \ DOMAIN own : FieldsOf(i)[k] = parent[k]

\* A subclass that redeclares a parent's field with a different Field and
\* keeps another parent field.
C8_Witness ==
    \E i \in 1 .. Len(classes) :
        /\ classes[i].parent # 0
        /\ "foo" \in DOMAIN OwnFields(i)
        /\ "foo" \in DOMAIN FieldsOf(classes[i].parent)
        /\ FieldsOf(classes[i].parent)["foo"] # OwnFields(i)["foo"]
        /\ "_id" \notin DOMAIN OwnFields(i)
        /\ FieldsOf(i)["foo"] = OwnFields(i)["foo"]

\* C10: declaring a class never changes the schema of a class built before:
\* every class's field mapping is what it was when its declaration ended,
\* and no two classes share one mapping object.
C10_ParentUntouched ==
    /\ \A i \in 1 .. Len(classes) : FieldsOf(i) = classes[i].declared
    /\ \A i, j \in 1 .. Len(classes) : i # j => classes[i].fields # classes[j].fields

\* A parent with two subclasses, one adding a field and overriding the
\* identifier, the other overriding the parent's field.
C10_Witness ==
    \E p, i, j \in 1 .. Len(classes) :
        /\ classes[i].parent = p
        /\ classes[j].parent = p
        /\ i # j
        /\ DOMAIN FieldsOf(i) # DOMAIN FieldsOf(p)
        /\ FieldsOf(i)["_id"] # FieldsOf(p)["_id"]
        /\ FieldsOf(j) # FieldsOf(p)


\* ------------------------------------------------------- BaseDocument
\* class Doc(BaseDocument): foo = Field(str); bar = Field(int, required=False)
\* with or without a default for bar.
DocNamespaces ==
    {[foo |-> StrField, bar |-> IntField], [foo |-> StrField, bar |-> IntDefaultField]}
DocClass(dct, kwargs) ==
    NewClass(Append(BaseDocument.heap, dct), <<BaseDocument.class>>, "Doc", 1,
             Len(BaseDocument.heap) + 1, kwargs).class

\* The keys a caller may use; zap is declared by no class.
Keys == {"_id", "foo", "bar", "zap"}
\* The ObjectIds a caller can know: those the client has generated so far.
KnownIds == {ObjectId(n) : n \in 1 .. nextId}
ValuesFor(k) ==
    IF k = "_id" THEN KnownIds
    ELSE IF k = "foo" THEN Values
    ELSE IF k = "bar" THEN Values \ {0}
    ELSE {1}

\* Ordered items (name, value) with distinct names, as **kwargs or as the
\* items() of a positional dict, of at most n items.
Items(n) ==
    {s \in UNION {[1 .. m -> {<<k, v>> : k \in Keys, v \in Values \cup KnownIds}] : m \in 0 .. n} :
        /\ \A i \in DOMAIN s : s[i][2] \in ValuesFor(s[i][1])
        /\ \A i, j \in DOMAIN s : i # j => s[i][1] # s[j][1]}
Names(items) == {items[i][1] : i \in DOMAIN items}
\* The positional arguments of __init__: none, one that is no dict, or a dict.
Positional == {<<>>, <<[dict |-> FALSE, items |-> <<>>]>>}
                  \cup {<<[dict |-> TRUE, items |-> s]>> : s \in Items(1)}

\* dict(items)
RECURSIVE FromItems(_, _)
FromItems(items, d) ==
    IF items = <<>> THEN d
    ELSE FromItems(Tail(items), SetItem(d, Head(items)[1], Head(items)[2]))

\* BaseDocument.__init__, lines 145-148: every field that has a default is set to it.
SetDefaults(fields, d) ==
    [k \in DOMAIN d \cup {x \in DOMAIN fields : HasDefault(fields[x])} |->
        IF k \in DOMAIN fields /\ HasDefault(fields[k]) THEN fields[k].default_value ELSE d[k]]

\* BaseDocument.__init__, lines 149-155: the supplied items in order; the
\* first one that is undeclared or rejected by its validator raises.
RECURSIVE CheckSupplied_unchecked(_, _, _)
CheckSupplied_unchecked(fields, items, d) ==
    IF items = <<>> THEN [err |-> "ok", doc |-> <<d>>]
    ELSE LET k == Head(items)[1]
             v == Head(items)[2]
         IN  IF has_field(fields, k)
             THEN IF Accepts(fields[k], v)
                  THEN CheckSupplied_unchecked(fields, Tail(items), SetItem(d, k, v))
                  ELSE [err |-> "ValidationError", doc |-> <<>>]
             ELSE CheckSupplied_unchecked(fields, Tail(items), d)

RECURSIVE CheckSupplied(_, _, _)
CheckSupplied(fields, items, d) ==
    IF items = <<>> THEN [err |-> "ok", doc |-> <<d>>]
    ELSE LET k == Head(items)[1]
             v == Head(items)[2]
         IN  IF has_field(fields, k)
             THEN IF Accepts(fields[k], v)
                  THEN CheckSupplied(fields, Tail(items), SetItem(d, k, v))
                  ELSE [err |-> "ValidationError", doc |-> <<>>]
             ELSE [err |-> "ExtraFieldError", doc |-> <<>>]

\* The items __init__ works on: kwargs, then the positional dict's items
\* whose names kwargs lacks (lines 139-142).
Supplied(args, kwargs) ==
    IF args = <<>> THEN kwargs
    ELSE kwargs \o SelectSeq(args[1].items, LAMBDA it : it[1] \notin Names(kwargs))

\* BaseDocument.__init__(self, *args, **kwargs): the error raised and the
\* instance produced (<<>> when it raises).
init(fields, args, kwargs) ==
    IF args # <<>> /\ ~args[1].dict THEN [err |-> "TypeError", doc |-> <<>>]
    ELSE LET items == Supplied(args, kwargs)
         IN  CheckSupplied(fields, items, SetDefaults(fields, FromItems(items, EmptyDict)))

\* BaseDocument.validate_all(self) with the default validate() hook.
validate_all_skips_required(fields, d) ==
    IF \E k \in DOMAIN d : ~has_field(fields, k) THEN "ValidationError"
    ELSE IF \E k \in DOMAIN fields : k \in DOMAIN d /\ ~Accepts(fields[k], d[k])
    THEN "ValidationError"
    ELSE "ok"

validate_all(fields, d) ==
    IF \E k \in DOMAIN d : ~has_field(fields, k) THEN "ValidationError"
    ELSE IF \E k \in DOMAIN fields :
                \/ k \in DOMAIN d /\ ~Accepts(fields[k], d[k])
                \/ k \notin DOMAIN d /\ fields[k].required
    THEN "ValidationError"
    ELSE "ok"

\* collection.save(to_save, **kwargs) of the store client (pymongo, motor),
\* called on the instance itself: a dict without _id is given a fresh
\* ObjectId, in place and before anything is sent, and is inserted; a dict
\* with _id replaces (upsert) the whole document of that _id.  kwargs are
\* handed to the client as they are; none selects a partial update.
\* The result is the request and the dict as the client leaves it.
SaveRequest(d, n, kwargs) ==
    IF "_id" \notin DOMAIN d
    THEN LET d2 == SetItem(d, "_id", ObjectId(n + 1))
         IN  [op |-> [kind |-> "insert", filter |-> EmptyDict, doc |-> d2, options |-> kwargs],
              doc |-> d2, nextId |-> n + 1]
    ELSE [op |-> [kind |-> "replace", filter |-> [k \in {"_id"} |-> d["_id"]], doc |-> d,
                  options |-> kwargs],
          doc |-> d, nextId |-> n]

\* Document(foo=..., ...): BaseDocument.__init__
Construct(args, kwargs) ==
    /\ doc = <<>>
    /\ LET r == init(schema, args, kwargs)
       IN  /\ doc' = r.doc
           /\ err' = r.err
    /\ supplied' = [args |-> args, kwargs |-> kwargs]
    /\ call' = "init"
    /\ issued' = <<>>
    /\ found' = <<>>
    /\ UNCHANGED <<schemaVars, schema, nanomongo, store, nextId, snapshot, rejected>>

\* d[k] = v
setitem(k, v) ==
    /\ doc # <<>>
    /\ doc' = <<SetItem(doc[1], k, v)>>
    /\ call' = "setitem"
    /\ err' = "ok"
    /\ issued' = <<>>
    /\ found' = <<>>
    /\ supplied' = NoCall
    /\ UNCHANGED <<schemaVars, schema, nanomongo, store, nextId, snapshot, rejected>>

\* del d[k]
delitem(k) ==
    /\ doc # <<>>
    /\ k \in DOMAIN doc[1]
    /\ doc' = <<DelItem(doc[1], k)>>
    /\ call' = "delitem"
    /\ err' = "ok"
    /\ issued' = <<>>
    /\ found' = <<>>
    /\ supplied' = NoCall
    /\ UNCHANGED <<schemaVars, schema, nanomongo, store, nextId, snapshot, rejected>>

\* d.validate_all()
CallValidateAll ==
    /\ doc # <<>>
    /\ err' = validate_all(schema, doc[1])
    /\ rejected' = (rejected \/ (err' # "ok" /\ \E k \in DOMAIN schema :
                                     schema[k].required /\ k \notin DOMAIN doc[1]))
    /\ call' = "validate_all"
    /\ issued' = <<>>
    /\ found' = <<>>
    /\ supplied' = NoCall
    /\ UNCHANGED <<schemaVars, schema, nanomongo, doc, store, nextId, snapshot>>

\* d.save(**kwargs) without the call of validate_all.
save_unvalidated(kwargs, fails) ==
    /\ doc # <<>>
    /\ call' = "save"
    /\ found' = <<>>
    /\ supplied' = NoCall
    /\ IF get_collection(nanomongo) # "ok"
       THEN /\ ~fails
            /\ err' = get_collection(nanomongo)
            /\ issued' = <<>>
            /\ UNCHANGED <<doc, store, nextId, snapshot>>
       ELSE /\ "_id" \notin DOMAIN doc[1] => nextId < MaxIds
            /\ LET r == SaveRequest(doc[1], nextId, kwargs)
               IN  /\ issued' = <<r.op>>
                   /\ doc' = <<r.doc>>
                   /\ nextId' = r.nextId
                   /\ IF fails
                      THEN /\ err' = "StoreError"
                           /\ UNCHANGED <<store, snapshot>>
                      ELSE /\ err' = "ok"
                           /\ store' = SetItem(store, r.doc["_id"], r.doc)
                           /\ snapshot' = <<r.doc>>
    /\ UNCHANGED <<schemaVars, schema, nanomongo, rejected>>

\* d.save(**kwargs): validate_all, then get_collection().save(self, **kwargs);
\* `fails` is whether the store client raises.
save(kwargs, fails) ==
    /\ doc # <<>>
    /\ call' = "save"
    /\ found' = <<>>
    /\ supplied' = NoCall
    /\ IF validate_all(schema, doc[1]) # "ok"
       THEN /\ ~fails
            /\ err' = validate_all(schema, doc[1])
            /\ issued' = <<>>
            /\ UNCHANGED <<doc, store, nextId, snapshot>>
       ELSE IF get_collection(nanomongo) # "ok"
       THEN /\ ~fails
            /\ err' = get_collection(nanomongo)
            /\ issued' = <<>>
            /\ UNCHANGED <<doc, store, nextId, snapshot>>
       ELSE /\ "_id" \notin DOMAIN doc[1] => nextId < MaxIds
            /\ LET r == SaveRequest(doc[1], nextId, kwargs)
               IN  /\ issued' = <<r.op>>
                   /\ doc' = <<r.doc>>
                   /\ nextId' = r.nextId
                   /\ IF fails
                      THEN /\ err' = "StoreError"
                           /\ UNCHANGED <<store, snapshot>>
                      ELSE /\ err' = "ok"
                           /\ store' = SetItem(store, r.doc["_id"], r.doc)
                           /\ snapshot' = <<r.doc>>
    /\ UNCHANGED <<schemaVars, schema, nanomongo, rejected>>

\* Doc.find_one({'_id': id}): as_class = cls makes the client build the
\* result as cls() and assign each stored item to it.
find_one(fields, col, id) ==
    IF id \notin DOMAIN col THEN <<>>
    ELSE LET blank == init(fields, <<>>, <<>>).doc[1]
         IN  <<[k \in DOMAIN blank \cup DOMAIN col[id] |->
                   IF k \in DOMAIN col[id] THEN col[id][k] ELSE blank[k]]>>

CallFindOne(id) ==
    /\ err' = get_collection(nanomongo)
    /\ found' = IF err' = "ok" THEN find_one(schema, store, id) ELSE <<>>
    /\ call' = "find_one"
    /\ issued' = <<>>
    /\ supplied' = NoCall
    /\ UNCHANGED <<schemaVars, schema, nanomongo, doc, store, nextId, snapshot, rejected>>

SaveKwargs == {EmptyDict, [k \in {"atomic"} |-> TRUE]}

Init ==
    \E dct \in DocNamespaces, kwargs \in ClassKwargs \ {EmptyDict} :
        /\ heap = <<>>
        /\ classes = <<>>
        /\ schema = DocClass(dct, kwargs).declared
        /\ nanomongo = [n \in {"client", "database", "collection"} |-> DocClass(dct, kwargs)[n]]
        /\ doc = <<>>
        /\ store = EmptyDict
        /\ nextId = 0
        /\ call = "none"
        /\ err = "ok"
        /\ issued = <<>>
        /\ found = <<>>
        /\ snapshot = <<>>
        /\ rejected = FALSE
        /\ supplied = NoCall

Next ==
    \/ doc = <<>> /\ \E args \in Positional, kwargs \in Items(2) : Construct(args, kwargs)
    \/ \E k \in Keys : \E v \in ValuesFor(k) : setitem(k, v)
    \/ \E k \in Keys : delitem(k)
    \/ CallValidateAll
    \/ \E kw \in SaveKwargs, fails \in BOOLEAN : save(kw, fails)
    \/ \E id \in KnownIds : CallFindOne(id)

Spec == Init /\ [][Next]_vars


\* ---------------------------------------------------- document properties
\* What is wrong with a dict d under the instance's schema.
Undeclared(d) == DOMAIN d \ DOMAIN schema
MissingRequired(d) == {k \in DOMAIN schema : schema[k].required /\ k \notin DOMAIN d}
RejectedValues(d) == {k \in DOMAIN d \cap DOMAIN schema : ~Accepts(schema[k], d[k])}
WellFormed(d) == Undeclared(d) = {} /\ MissingRequired(d) = {} /\ RejectedValues(d) = {}

\* The save of this step passed atomic=True.
AtomicSaved == call' = "save" /\ issued' # <<>> /\ "atomic" \in DOMAIN issued'[1].options

\* C1: save() validates before it writes: when the instance has an
\* undeclared key, lacks a required field or holds a rejected value, save
\* fails with the validation error, issues nothing to the store client and
\* leaves the store, the snapshot and the instance as they were; so every
\* stored document has only declared keys and every required field.
C1_ValidateBeforeWrite ==
    /\ [][(doc # <<>> /\ call' = "save" /\ ~WellFormed(doc[1])) =>
             /\ err' = "ValidationError"
             /\ issued' = <<>>
             /\ store' = store
             /\ snapshot' = snapshot
             /\ doc' = doc]_vars
    /\ [](\A id \in DOMAIN store :
             /\ DOMAIN store[id] \subseteq DOMAIN schema
             /\ \A k \in DOMAIN schema : schema[k].required => k \in DOMAIN store[id])

\* A persisted instance that was given an undeclared key and lost its
\* required field: its save failed and the stored document is the old one.
C1_Witness ==
    /\ call = "save"
    /\ err = "ValidationError"
    /\ snapshot # <<>>
    /\ Undeclared(doc[1]) # {}
    /\ MissingRequired(doc[1]) # {}
    /\ store[snapshot[1]["_id"]] = snapshot[1]

\* C2: on an instance that was Clean, then had one field A set to a new
\* value and one field B removed, save(atomic=True) issues exactly one
\* partial update, keyed by the identifier, with one set (A) and one unset
\* (B), and the stored document changes in A and B only.
C2_PartialUpdate ==
    [][(/\ doc # <<>>
        /\ snapshot # <<>>
        /\ AtomicSaved
        /\ err' = "ok"
        /\ "_id" \in DOMAIN doc[1] \cap DOMAIN snapshot[1]
        /\ doc[1]["_id"] = snapshot[1]["_id"]
        /\ Cardinality({k \in DOMAIN doc[1] :
                           k \notin DOMAIN snapshot[1] \/ snapshot[1][k] # doc[1][k]}) = 1
        /\ Cardinality(DOMAIN snapshot[1] \ DOMAIN doc[1]) = 1)
       =>
       LET set == {k \in DOMAIN doc[1] :
                       k \notin DOMAIN snapshot[1] \/ snapshot[1][k] # doc[1][k]}
           unset == DOMAIN snapshot[1] \ DOMAIN doc[1]
           id == doc[1]["_id"]
       IN  /\ Len(issued') = 1
           /\ issued'[1].kind = "update"
           /\ issued'[1].filter = [k \in {"_id"} |-> id]
           /\ issued'[1].set = [k \in set |-> doc[1][k]]
           /\ issued'[1].unset = unset
           /\ store'[id] = [k \in (DOMAIN store[id] \cup set) \ unset |->
                               IF k \in set THEN doc[1][k] ELSE store[id][k]]]_vars

\* C3: after every successful save, find_one by the instance's identifier
\* returns a document equal, field for field, to the instance.
C3_RoundTrip ==
    (doc # <<>> /\ call = "save" /\ err = "ok") =>
        /\ "_id" \in DOMAIN doc[1]
        /\ find_one(schema, store, doc[1]["_id"]) = doc

\* C4: when the store client fails during save, exactly one request was
\* issued, the instance stays as it was (New stays New), and a retried save
\* would issue the identical request.
C4_StoreFailure ==
    [][(doc # <<>> /\ call' = "save" /\ err' = "StoreError") =>
          /\ Len(issued') = 1
          /\ snapshot' = snapshot
          /\ ("_id" \notin DOMAIN doc[1] => "_id" \notin DOMAIN doc'[1])
          /\ SaveRequest(doc'[1], nextId', issued'[1].options).op = issued'[1]]_vars

\* C5: save(atomic=True) on a Clean persisted instance issues an empty
\* update (nothing set, nothing unset) or nothing at all, leaves the stored
\* document unchanged and leaves the instance Clean.
C5_IdempotentAtomicSave ==
    [][(doc # <<>> /\ snapshot = doc /\ AtomicSaved /\ err' = "ok") =>
          /\ \A i \in DOMAIN issued' :
                 /\ issued'[i].kind = "update"
                 /\ DOMAIN issued'[i].set = {}
                 /\ issued'[i].unset = {}
          /\ store' = store
          /\ snapshot' = doc']_vars

\* The first supplied item, in the order __init__ visits them, that is
\* undeclared; 0 when every supplied name is declared.
FirstUndeclared(items) ==
    IF \A i \in DOMAIN items : items[i][1] \in DOMAIN schema THEN 0
    ELSE CHOOSE i \in DOMAIN items :
             /\ items[i][1] \notin DOMAIN schema
             /\ \A j \in 1 .. i - 1 : items[j][1] \in DOMAIN schema
\* The items of the recorded call of __init__, and whether its positional
\* argument, if any, was a mapping.
SuppliedItems == Supplied(supplied.args, supplied.kwargs)
PositionalIsMapping == supplied.args = <<>> \/ supplied.args[1].dict

\* C6 as claimed: constructing with an undeclared field name always fails
\* with ExtraFieldError, whatever the other supplied fields are.
C6_AlwaysExtraFieldError ==
    (call = "init" /\ PositionalIsMapping /\ FirstUndeclared(SuppliedItems) # 0) =>
        err = "ExtraFieldError" /\ doc = <<>>

\* C6 amended: constructing with an undeclared field name always fails and
\* produces no instance.  It fails with TypeError when the positional
\* argument is no mapping; else with the ValidationError of a declared
\* field visited before the first undeclared name whose value its
\* validator rejects; else with ExtraFieldError.
C6_UndeclaredFieldFails ==
    (call = "init" /\ FirstUndeclared(SuppliedItems) # 0) =>
        LET early == \E j \in 1 .. FirstUndeclared(SuppliedItems) - 1 :
                         ~Accepts(schema[SuppliedItems[j][1]], SuppliedItems[j][2])
        IN  /\ doc = <<>>
            /\ err = IF ~PositionalIsMapping THEN "TypeError"
                     ELSE IF early THEN "ValidationError"
                     ELSE "ExtraFieldError"

\* A construction given a valid field, then an undeclared one, then a
\* rejected one: it failed with ExtraFieldError and produced no instance.
C6_Witness ==
    /\ call = "init"
    /\ err = "ExtraFieldError"
    /\ doc = <<>>
    /\ Len(SuppliedItems) = 3
    /\ FirstUndeclared(SuppliedItems) = 2
    /\ SuppliedItems[3][1] \in DOMAIN schema
    /\ ~Accepts(schema[SuppliedItems[3][1]], SuppliedItems[3][2])

\* C9: validate_all fails with ValidationError while a required field is
\* missing, succeeds whenever no key is undeclared, no required field is
\* missing and no value is rejected (so on every repeated call too), and
\* never changes the instance.
C9_ValidateAll ==
    [][(doc # <<>> /\ call' = "validate_all") =>
          /\ doc' = doc
          /\ MissingRequired(doc[1]) # {} => err' = "ValidationError"
          /\ WellFormed(doc[1]) => err' = "ok"]_vars

\* validate_all succeeded on an instance on which it had failed for a
\* missing required field.
C9_Witness ==
    /\ call = "validate_all"
    /\ err = "ok"
    /\ rejected
    /\ doc # <<>>
    /\ MissingRequired(doc[1]) = {}

====
